---------------------------- MODULE Spec2Model ----------------------------
(***************************************************************************)
(* Model of src/server.js: the Tartarus session coordinator.  One process  *)
(* holds the game state record, one countdown interval and the handle of   *)
(* the simulation (collaborator) socket.  Every socket.io handler and the  *)
(* interval callback run to completion, so each is one action.             *)
(*                                                                         *)
(* The Hangul display labels of the source (server.js:165-168 and the chat *)
(* lines) are written here in Revised Romanization, because the module is  *)
(* plain ASCII: seonjang, enjinieo, uisa, paillot.                         *)
(*                                                                         *)
(* A socket of the model is a connection slot: the handlers of io.on(      *)
(* 'connection') run for it until its disconnect, after which the slot     *)
(* stands for the next connection.  The server keeps no reference to a     *)
(* disconnected socket (the disconnect handler clears simulationSocket     *)
(* when it is the one that left), so the next connection of the slot is a  *)
(* socket the server has never seen.                                       *)
(***************************************************************************)
EXTENDS Naturals, Integers, Sequences, FiniteSets, TLC

VARIABLES
    gameState,          \* the gameState record, server.js:23-32
    simulationSocket,   \* server.js:35
    gameTimer,          \* server.js:36, the handle kept in the variable
    liveTimers,         \* the intervals the event loop still fires
    emitted,            \* messages sent by the handler that ran last, in order
    lastEvent,          \* the handler that ran last and its input
    ticks               \* interval callbacks run since the last startGame()

vars == <<gameState, simulationSocket, gameTimer, liveTimers,
          emitted, lastEvent, ticks>>

-----------------------------------------------------------------------------
(* Bounds of the model *)

MaxSockets == 2      \* connections that exist at the same time
MaxTimers == 2       \* interval objects that exist at the same time
MaxTurn == 1         \* actions accepted in one session
MaxLog == 1          \* entries of the conversation log
ClientWindow == 2    \* clients send events only while the countdown is within
                     \* this many ticks of its start or of its end
LongLog == 22        \* entries of the conversation log in SpecLog

-----------------------------------------------------------------------------
(* Constants of the program *)

ROLES == <<"Captain", "Engineer", "Doctor", "Pilot">>
RoleSet == {ROLES[i] : i \in 1..Len(ROLES)}

INITIAL_TIME == 600
NULL == "null"
NoSocket == 0
NoTimer == 0
EMPTY == ""

Sockets == 1..MaxSockets
TimerIds == 1..MaxTimers

TIME_OVER_MESSAGE == "TARTARUS SYSTEM: [TIME OVER]. mission failed."
VICTORY_MESSAGE == "TARTARUS SYSTEM: [TARGET TERMINATED]. White Fluid. traitor removed."
DEFEAT_MESSAGE == "TARTARUS SYSTEM: [TARGET TERMINATED]. Red Blood. innocent crew member dead. mission failed."
NO_SIMULATION_MESSAGE == "[SYSTEM] AI simulation module is not connected."
FALLBACK_CHOICES == <<"retry", "wait", "check system">>
DEFAULT_CHOICES == <<"continue", "wait", "confirm">>

(* Inputs the clients send *)
Messages == {EMPTY, "check panel"}
PlayerActions == {EMPTY, "inspect"}
AiMessages == {"narration"}
\* response.choices: left out of the payload, an empty array, or a list
AiChoices == {[supplied |-> FALSE, list |-> <<>>],
              [supplied |-> TRUE,  list |-> <<>>],
              [supplied |-> TRUE,  list |-> <<"go", "stay">>]}
TargetNames == {EMPTY, "seonjang", "enjinieo", "uisa", "paillot",
                "Captain", "Engineer", "Doctor", "Pilot", "Navigator"}

-----------------------------------------------------------------------------
(* Helpers *)

Max(a, b) == IF a >= b THEN a ELSE b

\* the table without its "|| targetName" fallback: an unlisted name maps to undefined
nameMapping_NoFallback(targetName) ==
    CASE targetName = "seonjang" -> "Captain"
      [] targetName = "enjinieo" -> "Engineer"
      [] targetName = "uisa"     -> "Doctor"
      [] targetName = "paillot"  -> "Pilot"
      [] OTHER                   -> "undefined"

\* nameMapping[targetName] || targetName
nameMapping(targetName) ==
    CASE targetName = "seonjang" -> "Captain"
      [] targetName = "enjinieo" -> "Engineer"
      [] targetName = "uisa"     -> "Doctor"
      [] targetName = "paillot"  -> "Pilot"
      [] OTHER                   -> targetName

\* a clearInterval that cancels nothing
clearInterval_Noop(live, handle) == live

\* clearInterval(handle): a null or already cleared handle is a no-op
clearInterval(live, handle) == live \ {handle}

\* a handle that is dropped without clearing its interval
clearGameTimer_Skip(live, handle) == live

\* if (gameTimer) { clearInterval(gameTimer); gameTimer = null; }
clearGameTimer(live, handle) ==
    IF handle # NoTimer THEN clearInterval(live, handle) ELSE live

\* setInterval returns a new Timeout object: an identity no live interval has
newTimer(live) ==
    CHOOSE t \in TimerIds : t \notin live /\ \A u \in TimerIds : u < t => u \in live

\* io.emit(event, data)
Broadcast(event, data) ==
    [mode |-> "broadcast", to |-> NoSocket, event |-> event, data |-> data]

\* socket.emit(event, data)
SendTo(s, event, data) ==
    [mode |-> "socket", to |-> s, event |-> event, data |-> data]

Event(name, s, arg) == [name |-> name, socket |-> s, arg |-> arg]

RECENT_WINDOW == 20

\* slice(0, 20): the oldest entries in place of the most recent ones
slice_Oldest(log) ==
    IF Len(log) <= RECENT_WINDOW THEN log ELSE SubSeq(log, 1, RECENT_WINDOW)

\* conversation.slice(-20)
slice(log) ==
    IF Len(log) <= RECENT_WINDOW THEN log
    ELSE SubSeq(log, Len(log) - RECENT_WINDOW + 1, Len(log))

-----------------------------------------------------------------------------
(* startGame(), server.js:39-89 *)

freshState(idx) ==
    [turn           |-> 0,
     playerLocation |-> "bridge",
     isAlive        |-> TRUE,
     conversation   |-> <<>>,
     gameOver       |-> FALSE,
     traitor        |-> ROLES[idx],
     timeRemaining  |-> INITIAL_TIME,
     gameResult     |-> NULL]

\* io.emit in place of simulationSocket.emit
startGameEmits_Broadcast(state, sim) ==
    <<[mode |-> "broadcast", to |-> NoSocket, event |-> "secret_traitor_info",
       data |-> state.traitor]>>

\* the messages startGame sends: the secret role to the simulation socket only
startGameEmits(state, sim) ==
    IF sim # NoSocket
    THEN <<SendTo(sim, "secret_traitor_info", state.traitor)>>
    ELSE <<>>

Init ==
    /\ \E idx \in 1..Len(ROLES) : gameState = freshState(idx)
    /\ simulationSocket = NoSocket
    /\ gameTimer = newTimer({})
    /\ liveTimers = {newTimer({})}
    /\ emitted = <<>>
    /\ lastEvent = Event("startGame", NoSocket, EMPTY)
    /\ ticks = 0


-----------------------------------------------------------------------------
(* The interval callback, server.js:64-88.  t is the interval that fires.   *)

timeUpdate(state) == [timeRemaining |-> state.timeRemaining]

timeoutGameOver(state) ==
    [result |-> "defeat", message |-> TIME_OVER_MESSAGE, realTraitor |-> state.traitor]

\* a countdown that loses two seconds per tick
decrement_ByTwo(timeRemaining) == Max(0, timeRemaining - 2)

\* a countdown that stands still
decrement_Stuck(timeRemaining) == Max(0, timeRemaining)

\* gameState.timeRemaining = Math.max(0, gameState.timeRemaining - 1)
decrement(timeRemaining) == Max(0, timeRemaining - 1)

\* a deadline test that misses 0
timeIsUp_Negative(state) == state.timeRemaining < 0 /\ ~state.gameOver

\* if (gameState.timeRemaining <= 0 && !gameState.gameOver)
timeIsUp(state) == state.timeRemaining <= 0 /\ ~state.gameOver

Tick(t) ==
    /\ t \in liveTimers
    /\ lastEvent' = Event("tick", NoSocket, EMPTY)
    /\ ticks' = ticks + 1
    /\ UNCHANGED <<simulationSocket, gameTimer>>
    /\ IF gameState.gameOver
       THEN /\ liveTimers' = clearInterval(liveTimers, gameTimer)
            /\ emitted' = <<>>
            /\ UNCHANGED gameState
       ELSE LET ticked == [gameState EXCEPT !.timeRemaining = decrement(@)]
            IN  IF timeIsUp(ticked)
                THEN /\ gameState' = [ticked EXCEPT !.gameOver = TRUE,
                                                    !.gameResult = "defeat"]
                     /\ emitted' = << Broadcast("time update", timeUpdate(ticked)),
                                      Broadcast("chat message", <<"[SYSTEM] time over.">>),
                                      Broadcast("game_over", timeoutGameOver(ticked)) >>
                     /\ liveTimers' = clearInterval(liveTimers, gameTimer)
                ELSE /\ gameState' = ticked
                     /\ emitted' = << Broadcast("time update", timeUpdate(ticked)) >>
                     /\ UNCHANGED liveTimers

-----------------------------------------------------------------------------
\* a registration that does not send the secret role
SimulationReady_Silent(s) ==
    /\ simulationSocket' = s
    /\ emitted' = <<>>
    /\ lastEvent' = [name |-> "simulation-ready", socket |-> s, arg |-> EMPTY]
    /\ UNCHANGED <<gameState, gameTimer, liveTimers, ticks>>

(* socket.on('simulation-ready'), server.js:98-105 *)
SimulationReady(s) ==
    /\ simulationSocket' = s
    /\ emitted' = IF gameState.traitor # NULL
                  THEN <<SendTo(s, "secret_traitor_info", gameState.traitor)>>
                  ELSE <<>>
    /\ lastEvent' = Event("simulation-ready", s, EMPTY)
    /\ UNCHANGED <<gameState, gameTimer, liveTimers, ticks>>

\* message || playerAction: the raw message takes priority over the explicit action
generateResponse_MessageFirst(state, message, playerAction) ==
    [turn         |-> state.turn,
     playerAction |-> IF message # EMPTY THEN message ELSE playerAction,
     conversation |-> slice(state.conversation),
     gameState    |-> [location      |-> state.playerLocation,
                       isAlive       |-> state.isAlive,
                       timeRemaining |-> state.timeRemaining]]

(* socket.on('action'), server.js:108-146 *)
generateResponse(state, message, playerAction) ==
    [turn         |-> state.turn,
     playerAction |-> IF playerAction # EMPTY THEN playerAction ELSE message,
     conversation |-> slice(state.conversation),
     gameState    |-> [location      |-> state.playerLocation,
                       isAlive       |-> state.isAlive,
                       timeRemaining |-> state.timeRemaining]]

degradedResponse == [message |-> NO_SIMULATION_MESSAGE, choices |-> FALLBACK_CHOICES]

\* an action handler without the gameOver check
actionIgnored_Never(state) == FALSE

\* if (gameState.gameOver) return;
actionIgnored(state) == state.gameOver

\* a turn that only counts the actions that carry a message
nextTurn_OnlyWithMessage(state, message) ==
    IF message # EMPTY THEN state.turn + 1 ELSE state.turn

\* gameState.turn += 1;
nextTurn(state, message) == state.turn + 1

Action(s, message, playerAction) ==
    /\ lastEvent' = Event("action", s, <<message, playerAction>>)
    /\ UNCHANGED <<simulationSocket, gameTimer, liveTimers, ticks>>
    /\ IF actionIgnored(gameState)
       THEN /\ emitted' = <<>>
            /\ UNCHANGED gameState
       ELSE LET logged == IF message # EMPTY
                          THEN [gameState EXCEPT !.conversation =
                                  Append(@, [speaker |-> "player", text |-> message])]
                          ELSE gameState
                chat   == IF message # EMPTY
                          THEN <<Broadcast("chat message", <<"> ", message>>)>>
                          ELSE <<>>
                turned == [logged EXCEPT !.turn = nextTurn(logged, message)]
            IN  /\ gameState' = turned
                /\ emitted' = chat \o
                     IF simulationSocket # NoSocket
                     THEN <<SendTo(simulationSocket, "generateResponse",
                                   generateResponse(turned, message, playerAction))>>
                     ELSE <<Broadcast("game response", degradedResponse)>>

(* socket.on('accuse'), server.js:149-209 *)
executionLine(targetName) == <<"[SYSTEM] ", targetName, " execution complete.">>

\* an accuse handler without the gameOver latch
accuseIgnored_NoLatch(state, targetName) == targetName = EMPTY

\* an accuse handler without the targetName check
accuseIgnored_NoTargetCheck(state, targetName) == state.gameOver

\* if (gameState.gameOver) return;  if (!targetName) return;
accuseIgnored(state, targetName) == state.gameOver \/ targetName = EMPTY

Accuse(s, targetName) ==
    /\ lastEvent' = Event("accuse", s, targetName)
    /\ UNCHANGED <<simulationSocket, ticks>>
    /\ IF accuseIgnored(gameState, targetName)
       THEN /\ emitted' = <<>>
            /\ UNCHANGED <<gameState, gameTimer, liveTimers>>
       ELSE LET accusedRole == nameMapping(targetName)
            IN  /\ liveTimers' = clearGameTimer(liveTimers, gameTimer)
                /\ gameTimer' = NoTimer
                /\ IF accusedRole = gameState.traitor
                   THEN /\ gameState' = [gameState EXCEPT !.gameOver = TRUE,
                                                          !.gameResult = "victory"]
                        /\ emitted' =
                             << Broadcast("chat message", executionLine(targetName)),
                                Broadcast("game_over",
                                          [result      |-> "victory",
                                           message     |-> VICTORY_MESSAGE,
                                           realTraitor |-> gameState.traitor]) >>
                   ELSE /\ gameState' = [gameState EXCEPT !.gameOver = TRUE,
                                                          !.gameResult = "defeat"]
                        /\ emitted' =
                             << Broadcast("chat message", executionLine(targetName)),
                                Broadcast("game_over",
                                          [result      |-> "defeat",
                                           message     |-> DEFEAT_MESSAGE,
                                           realTraitor |-> gameState.traitor]) >>

(* socket.on('ai response'), server.js:212-230 *)
\* choices || [...] with the supplied list dropped
orDefault_Always(choices) == DEFAULT_CHOICES

\* choices || [...]: every array is truthy, only a missing field falls back
orDefault(choices) == IF choices.supplied THEN choices.list ELSE DEFAULT_CHOICES

AiResponse(s, message, choices) ==
    /\ lastEvent' = Event("ai response", s, <<message, choices>>)
    /\ UNCHANGED <<simulationSocket, gameTimer, liveTimers, ticks>>
    /\ IF gameState.gameOver
       THEN /\ emitted' = <<>>
            /\ UNCHANGED gameState
       ELSE /\ gameState' = [gameState EXCEPT !.conversation =
                               Append(@, [speaker |-> "AI", text |-> message])]
            /\ emitted' =
                 << Broadcast("chat message", <<message>>),
                    Broadcast("game response",
                              [message |-> message,
                               choices |-> orDefault(choices)]) >>

(* socket.on('request-initial-state'), server.js:233-243 *)
\* a late game_over that reports a defeat whatever was stored
storedGameOver_AlwaysDefeat(state) ==
    [result  |-> "defeat",
     message |-> DEFEAT_MESSAGE]

storedGameOver(state) ==
    [result  |-> state.gameResult,
     message |-> IF state.gameResult = "victory" THEN VICTORY_MESSAGE
                 ELSE DEFEAT_MESSAGE]

RequestInitialState(s) ==
    /\ emitted' = <<SendTo(s, "time update", timeUpdate(gameState))>> \o
                  IF gameState.gameOver
                  THEN <<SendTo(s, "game_over", storedGameOver(gameState))>>
                  ELSE <<>>
    /\ lastEvent' = Event("request-initial-state", s, EMPTY)
    /\ UNCHANGED <<gameState, simulationSocket, gameTimer, liveTimers, ticks>>

(* socket.on('restart_game'), server.js:246-255, with startGame inlined *)
RestartGame(s, idx) ==
    /\ LET cleared == clearGameTimer(liveTimers, gameTimer)
           started == freshState(idx)
       IN  /\ gameState' = started
           /\ gameTimer' = newTimer(cleared)
           /\ liveTimers' = cleared \cup {newTimer(cleared)}
           /\ emitted' = startGameEmits(started, simulationSocket)
                         \o <<Broadcast("system_reset", EMPTY)>>
                         \o IF simulationSocket # NoSocket
                            THEN <<SendTo(simulationSocket, "secret_traitor_info",
                                          started.traitor)>>
                            ELSE <<>>
    /\ lastEvent' = Event("restart_game", s, EMPTY)
    /\ ticks' = 0
    /\ UNCHANGED simulationSocket

(* socket.on('disconnect'), server.js:258-265 *)
\* a disconnect that clears the handle whoever leaves
afterDisconnect_Anyone(handle, s) == NoSocket

\* if (socket === simulationSocket) simulationSocket = null;
afterDisconnect(handle, s) == IF s = handle THEN NoSocket ELSE handle

Disconnect(s) ==
    /\ simulationSocket' = afterDisconnect(simulationSocket, s)
    /\ emitted' = <<>>
    /\ lastEvent' = Event("disconnect", s, EMPTY)
    /\ UNCHANGED <<gameState, gameTimer, liveTimers, ticks>>

-----------------------------------------------------------------------------
(* The environment.  The interval fires whenever it is live.  Clients send  *)
(* any event in any order, within the bounds of the model.                  *)

ClientsActive ==
    \/ gameState.timeRemaining + ClientWindow > INITIAL_TIME
    \/ gameState.timeRemaining < ClientWindow

TurnRoom == gameState.gameOver \/ gameState.turn < MaxTurn
LogRoom == gameState.gameOver \/ Len(gameState.conversation) < MaxLog
TimerRoom == \E t \in TimerIds : t \notin clearGameTimer(liveTimers, gameTimer)
TickRoom == ticks < INITIAL_TIME + ClientWindow

Next ==
    \/ \E t \in TimerIds : TickRoom /\ Tick(t)
    \/ \E s \in Sockets : ClientsActive /\ SimulationReady(s)
    \/ \E s \in Sockets, m \in Messages, pa \in PlayerActions :
          ClientsActive /\ TurnRoom /\ (m # EMPTY => LogRoom) /\ Action(s, m, pa)
    \/ \E s \in Sockets, target \in TargetNames : ClientsActive /\ Accuse(s, target)
    \/ \E s \in Sockets, m \in AiMessages, c \in AiChoices :
          ClientsActive /\ LogRoom /\ AiResponse(s, m, c)
    \/ \E s \in Sockets : ClientsActive /\ RequestInitialState(s)
    \/ \E s \in Sockets, idx \in 1..Len(ROLES) :
          ClientsActive /\ TimerRoom /\ RestartGame(s, idx)
    \/ \E s \in Sockets : ClientsActive /\ Disconnect(s)

Spec == Init /\ [][Next]_vars

(* setInterval(callback, 1000): the event loop runs the callback of a live  *)
(* interval again and again, whatever the sockets deliver in between.       *)
TickStep == \E t \in TimerIds : TickRoom /\ Tick(t)

FairSpec == Spec /\ WF_vars(TickStep)

-----------------------------------------------------------------------------
(* The environment of a long conversation: a burst of actions and replies   *)
(* in the first two seconds of a session, without accusation.  Each message *)
(* carries the number of the log entry it becomes, so that the entries of   *)
(* the log can be told apart.                                               *)

BurstOpen == gameState.timeRemaining = INITIAL_TIME
NumberedText == ToString(Len(gameState.conversation) + 1)
LongLogRoom == gameState.gameOver \/ Len(gameState.conversation) < LongLog

NextLog ==
    \/ \E t \in TimerIds : BurstOpen /\ Tick(t)
    \/ \E s \in Sockets : SimulationReady(s)
    \/ \E s \in Sockets, pa \in PlayerActions :
          LongLogRoom /\ Action(s, NumberedText, pa)
    \/ \E s \in Sockets, pa \in PlayerActions : TurnRoom /\ Action(s, EMPTY, pa)
    \/ \E s \in Sockets, m \in AiMessages, c \in AiChoices :
          LogRoom /\ AiResponse(s, m, c)
    \/ \E s \in Sockets, idx \in 1..Len(ROLES) : TimerRoom /\ RestartGame(s, idx)
    \/ \E s \in Sockets : Disconnect(s)

SpecLog == Init /\ [][NextLog]_vars

-----------------------------------------------------------------------------
(* Vocabulary of the claims *)

IsBroadcast(m, event) == m.mode = "broadcast" /\ m.event = event
Count(msgs, P(_)) == Cardinality({i \in DOMAIN msgs : P(msgs[i])})
SameSession == lastEvent'.name # "restart_game"

-----------------------------------------------------------------------------
\* C1: between two restarts, once gameOver is true it stays true and once
\* gameResult is victory or defeat it is never changed, whatever handler runs:
\* the first resolution wins.
C1_FirstResolutionWins ==
    [][SameSession =>
          /\ gameState.gameOver => gameState'.gameOver
          /\ gameState.gameResult # NULL =>
                gameState'.gameResult = gameState.gameResult]_vars

\* a correct accusation arrives after the timeout defeat and the result stays defeat
C1_Witness ==
    /\ lastEvent.name = "accuse"
    /\ lastEvent.arg = gameState.traitor
    /\ ticks = INITIAL_TIME
    /\ gameState.gameOver
    /\ gameState.gameResult = "defeat"

-----------------------------------------------------------------------------
\* the display-label table of the claim
C2_Label(target) ==
    IF target = "seonjang" THEN "Captain"
    ELSE IF target = "enjinieo" THEN "Engineer"
    ELSE IF target = "uisa" THEN "Doctor"
    ELSE IF target = "paillot" THEN "Pilot"
    ELSE target

C2_Result(state, target) ==
    IF C2_Label(target) = state.traitor THEN "victory" ELSE "defeat"

\* C2: an accuse event with a non-empty targetName received while gameOver is
\* false ends the session: victory if the target, mapped through the label
\* table, is the secret role, defeat otherwise; gameOver becomes true, the
\* countdown is cancelled, a chat line and then a game_over event carrying the
\* result and realTraitor = the secret role are broadcast; until a restart
\* timeRemaining no longer changes and no time update is broadcast.
C2_AccuseResolves ==
    [][/\ (lastEvent'.name = "accuse" /\ lastEvent'.arg # EMPTY /\ ~gameState.gameOver) =>
            /\ gameState'.gameOver
            /\ gameState'.gameResult = C2_Result(gameState, lastEvent'.arg)
            /\ gameState'.traitor = gameState.traitor
            /\ liveTimers' = {}
            /\ Len(emitted') = 2
            /\ IsBroadcast(emitted'[1], "chat message")
            /\ IsBroadcast(emitted'[2], "game_over")
            /\ emitted'[2].data.result = C2_Result(gameState, lastEvent'.arg)
            /\ emitted'[2].data.realTraitor = gameState.traitor
       /\ (gameState.gameOver /\ SameSession) =>
            /\ gameState'.timeRemaining = gameState.timeRemaining
            /\ \A i \in DOMAIN emitted' : ~IsBroadcast(emitted'[i], "time update")
      ]_vars

\* the scenario of the specification: secret role Doctor, accused by its label
C2_Witness ==
    /\ lastEvent.name = "accuse"
    /\ lastEvent.arg = "uisa"
    /\ gameState.traitor = "Doctor"
    /\ gameState.gameResult = "victory"
    /\ liveTimers = {}
    /\ Len(emitted) = 2
    /\ emitted[2].data.realTraitor = "Doctor"

-----------------------------------------------------------------------------
C3_GameOverSent(msgs) ==
    \E i \in DOMAIN msgs : msgs[i].event = "game_over"

\* C3: in a session without accusation and restart the 600th tick sets
\* timeRemaining to 0, latches gameOver with gameResult defeat and broadcasts,
\* in order, a time update of 0, a system chat line and one game_over event
\* with result defeat and realTraitor = the secret role; a tick that runs
\* after the resolution changes no state and emits nothing; a timeout
\* resolution fires only from a session that is not over and ends it, so at
\* most one fires per session.
C3_IdleTimeout ==
    [][/\ (lastEvent'.name = "tick" /\ ticks' = INITIAL_TIME /\ ~gameState.gameOver) =>
            /\ gameState'.timeRemaining = 0
            /\ gameState'.gameOver
            /\ gameState'.gameResult = "defeat"
            /\ Len(emitted') = 3
            /\ IsBroadcast(emitted'[1], "time update")
            /\ emitted'[1].data.timeRemaining = 0
            /\ IsBroadcast(emitted'[2], "chat message")
            /\ IsBroadcast(emitted'[3], "game_over")
            /\ emitted'[3].data.result = "defeat"
            /\ emitted'[3].data.realTraitor = gameState.traitor
       /\ (lastEvent'.name = "tick" /\ gameState.gameOver) =>
            /\ gameState' = gameState
            /\ emitted' = <<>>
       /\ (lastEvent'.name = "tick" /\ C3_GameOverSent(emitted')) =>
            /\ ~gameState.gameOver
            /\ gameState'.gameOver
            /\ ticks' = INITIAL_TIME
       /\ (gameState.gameOver /\ SameSession) => gameState'.gameOver
      ]_vars

\* the 600th tick of an idle session has just resolved it
C3_Witness ==
    /\ lastEvent.name = "tick"
    /\ ticks = INITIAL_TIME
    /\ gameState.timeRemaining = 0
    /\ gameState.gameResult = "defeat"
    /\ Len(emitted) = 3
    /\ emitted[3].data.realTraitor = gameState.traitor

-----------------------------------------------------------------------------
\* C4: timeRemaining is always an integer in 0..600; between two restarts it
\* never increases; a tick of an active session lowers it by exactly 1, not
\* below 0, and broadcasts the new value; no handler but the tick and the
\* restart changes it.
C4_TimeRemaining ==
    [][/\ gameState.timeRemaining \in 0..600
       /\ gameState'.timeRemaining \in 0..600
       /\ SameSession => gameState'.timeRemaining <= gameState.timeRemaining
       /\ (lastEvent'.name = "tick" /\ ~gameState.gameOver) =>
            /\ gameState'.timeRemaining = gameState.timeRemaining - 1
            /\ Len(emitted') >= 1
            /\ emitted'[1] = [mode |-> "broadcast", to |-> NoSocket,
                              event |-> "time update",
                              data |-> [timeRemaining |-> gameState'.timeRemaining]]
       /\ lastEvent'.name \notin {"tick", "restart_game"} =>
            gameState'.timeRemaining = gameState.timeRemaining
      ]_vars

\* a tick of the active session took the countdown from 600 to 599
C4_Witness ==
    /\ lastEvent.name = "tick"
    /\ ~gameState.gameOver
    /\ gameState.timeRemaining = 599
    /\ emitted = <<[mode |-> "broadcast", to |-> NoSocket, event |-> "time update",
                    data |-> [timeRemaining |-> 599]]>>

-----------------------------------------------------------------------------
\* C5: after a restart_game event, whatever the state it arrived in, turn = 0,
\* timeRemaining = 600, gameResult is unset, gameOver is false, the log is
\* empty, the secret role is one of the four roles and exactly one countdown
\* is armed; at most one countdown is live in any state, so one second lowers
\* timeRemaining by at most 1.
C5_Restart ==
    /\ Cardinality(liveTimers) <= 1
    /\ lastEvent.name = "restart_game" =>
          /\ gameState.turn = 0
          /\ gameState.timeRemaining = 600
          /\ gameState.gameResult = NULL
          /\ gameState.gameOver = FALSE
          /\ gameState.conversation = <<>>
          /\ gameState.traitor \in {"Captain", "Engineer", "Doctor", "Pilot"}
          /\ Cardinality(liveTimers) = 1
          /\ gameTimer \in liveTimers

\* a restart has just run and left the fresh session with its one countdown
C5_Witness ==
    /\ lastEvent.name = "restart_game"
    /\ gameState.turn = 0
    /\ gameState.timeRemaining = 600
    /\ ~gameState.gameOver
    /\ liveTimers = {gameTimer}

-----------------------------------------------------------------------------
C6_Carries(m, role) ==
    CASE m.event = "game_over"           -> m.data.realTraitor = role
      [] m.event = "chat message"        -> \E i \in DOMAIN m.data : m.data[i] = role
      [] m.event = "game response"       -> m.data.message = role
      [] m.event = "secret_traitor_info" -> m.data = role
      [] OTHER                           -> FALSE

\* C6: the secret role is always one of the four roles, and a broadcast
\* message that carries it is emitted only by a step that leaves gameOver true.
C6_SecretNotBroadcast ==
    /\ gameState.traitor \in {"Captain", "Engineer", "Doctor", "Pilot"}
    /\ \A i \in DOMAIN emitted :
          (emitted[i].mode = "broadcast" /\ C6_Carries(emitted[i], gameState.traitor))
             => gameState.gameOver

\* a wrong accusation has just disclosed the secret role in its game_over broadcast
C6_Witness ==
    /\ lastEvent.name = "accuse"
    /\ gameState.gameOver
    /\ gameState.gameResult = "defeat"
    /\ \E i \in DOMAIN emitted :
          /\ IsBroadcast(emitted[i], "game_over")
          /\ emitted[i].data.realTraitor = gameState.traitor

-----------------------------------------------------------------------------
IsSecretInfo(m) == m.event = "secret_traitor_info"

\* C7: every secret_traitor_info message goes, socket to socket, to the
\* connection stored as collaborator handle when it is sent and carries the
\* current secret role; and every step that stores a handle or draws a secret
\* role while a handle is stored sends such a message.  By induction the last
\* secret_traitor_info sent to the stored handle is the current secret role.
C7_SecretInfoToHandle ==
    [][/\ \A i \in DOMAIN emitted' :
             IsSecretInfo(emitted'[i]) =>
                /\ emitted'[i].mode = "socket"
                /\ simulationSocket' # NoSocket
                /\ emitted'[i].to = simulationSocket'
                /\ emitted'[i].data = gameState'.traitor
       /\ ( /\ simulationSocket' # NoSocket
            /\ \/ simulationSocket' # simulationSocket
               \/ gameState'.traitor # gameState.traitor
               \/ lastEvent'.name \in {"restart_game", "simulation-ready"} )
          => \E i \in DOMAIN emitted' : IsSecretInfo(emitted'[i])
      ]_vars

\* a restart has just sent the newly drawn role to the stored handle
C7_Witness ==
    /\ lastEvent.name = "restart_game"
    /\ simulationSocket # NoSocket
    /\ \E i \in DOMAIN emitted :
          emitted[i] = [mode |-> "socket", to |-> simulationSocket,
                        event |-> "secret_traitor_info", data |-> gameState.traitor]

-----------------------------------------------------------------------------
\* C8: one restart_game event processed while a collaborator is connected
\* sends exactly one secret_traitor_info message, and one simulation-ready
\* event sends exactly one.
C8_ExactlyOnePerEvent ==
    /\ (lastEvent.name = "restart_game" /\ simulationSocket # NoSocket) =>
          Count(emitted, IsSecretInfo) = 1
    /\ lastEvent.name = "simulation-ready" =>
          Count(emitted, IsSecretInfo) = 1

-----------------------------------------------------------------------------
\* C9: an action or accuse event received while gameOver is true changes
\* neither the game state (turn, log, gameResult, gameOver, timeRemaining) nor
\* the collaborator handle and sends nothing to anyone.
C9_IgnoredAfterGameOver ==
    [][(gameState.gameOver /\ lastEvent'.name \in {"action", "accuse"}) =>
          /\ gameState' = gameState
          /\ simulationSocket' = simulationSocket
          /\ emitted' = <<>>
      ]_vars

\* an action with a message has just been ignored by a session that is over
C9_Witness ==
    /\ lastEvent.name = "action"
    /\ lastEvent.arg[1] # EMPTY
    /\ gameState.gameOver
    /\ gameState.turn = 0
    /\ gameState.conversation = <<>>
    /\ emitted = <<>>

-----------------------------------------------------------------------------
\* C10: an accuse event without targetName received by an active session
\* changes no state and sends nothing; the countdown stays armed.
C10_EmptyAccusation ==
    [][(~gameState.gameOver /\ lastEvent'.name = "accuse" /\ lastEvent'.arg = EMPTY) =>
          /\ gameState' = gameState
          /\ simulationSocket' = simulationSocket
          /\ gameTimer' = gameTimer
          /\ liveTimers' = liveTimers
          /\ liveTimers' # {}
          /\ emitted' = <<>>
      ]_vars

\* an empty accusation has just been dropped and the countdown is still live
C10_Witness ==
    /\ lastEvent.name = "accuse"
    /\ lastEvent.arg = EMPTY
    /\ ~gameState.gameOver
    /\ gameState.gameResult = NULL
    /\ gameTimer \in liveTimers
    /\ emitted = <<>>

-----------------------------------------------------------------------------
IsPrompt(m) == m.event = "generateResponse"

\* the last min(20, n) entries of a log of length n, in log order
C11_Recent(log) ==
    LET n == Len(log)
        k == IF n < 20 THEN n ELSE 20
    IN  [i \in 1..k |-> log[n - k + i]]

\* C11: the conversation of every generateResponse prompt is the last
\* min(20, n) entries of the stored log of length n, in log order, the entry
\* appended for this action's message being its last; between two restarts
\* the stored log only grows at its end.
C11_ForwardedWindow ==
    [][/\ \A i \in DOMAIN emitted' :
             IsPrompt(emitted'[i]) =>
                LET window == emitted'[i].data.conversation
                IN  /\ lastEvent'.name = "action"
                    /\ window = C11_Recent(gameState'.conversation)
                    /\ Len(window) <= 20
                    /\ lastEvent'.arg[1] # EMPTY =>
                          /\ Len(window) >= 1
                          /\ window[Len(window)] =
                                [speaker |-> "player", text |-> lastEvent'.arg[1]]
                          /\ Len(gameState'.conversation) =
                                Len(gameState.conversation) + 1
       /\ SameSession =>
             /\ Len(gameState'.conversation) >= Len(gameState.conversation)
             /\ SubSeq(gameState'.conversation, 1, Len(gameState.conversation))
                   = gameState.conversation
      ]_vars

\* the 22nd entry has just been forwarded: the window is entries 3..22 of the log
C11_Witness ==
    /\ lastEvent.name = "action"
    /\ Len(gameState.conversation) = 22
    /\ \E i \in DOMAIN emitted :
          /\ IsPrompt(emitted[i])
          /\ Len(emitted[i].data.conversation) = 20
          /\ emitted[i].data.conversation[1] = gameState.conversation[3]
          /\ emitted[i].data.conversation[20] = gameState.conversation[22]
          /\ emitted[i].data.conversation[20].text = "22"

-----------------------------------------------------------------------------
IsGameResponse(m) == m.event = "game response"

\* C12: an action accepted by an active session does exactly one of two
\* things.  With a handle stored it sends one generateResponse prompt to the
\* handle, carrying the incremented turn, playerAction if present or else
\* message, and the current timeRemaining, and broadcasts no game response.
\* Without a handle it broadcasts one game response with the fixed message
\* and the three fallback choices and forwards nothing.  The handler leaves
\* no wait behind: the session is still active and its countdown still armed.
C12_ForwardOrDegrade ==
    [][(lastEvent'.name = "action" /\ ~gameState.gameOver) =>
          /\ IF simulationSocket # NoSocket
             THEN /\ Count(emitted', IsPrompt) = 1
                  /\ Count(emitted', IsGameResponse) = 0
                  /\ \A i \in DOMAIN emitted' :
                        IsPrompt(emitted'[i]) =>
                           /\ emitted'[i].mode = "socket"
                           /\ emitted'[i].to = simulationSocket
                           /\ emitted'[i].data.turn = gameState.turn + 1
                           /\ emitted'[i].data.turn = gameState'.turn
                           /\ emitted'[i].data.playerAction =
                                 (IF lastEvent'.arg[2] # EMPTY THEN lastEvent'.arg[2]
                                  ELSE lastEvent'.arg[1])
                           /\ emitted'[i].data.gameState.timeRemaining =
                                 gameState.timeRemaining
             ELSE /\ Count(emitted', IsPrompt) = 0
                  /\ Count(emitted', IsGameResponse) = 1
                  /\ \A i \in DOMAIN emitted' :
                        IsGameResponse(emitted'[i]) =>
                           /\ emitted'[i].mode = "broadcast"
                           /\ emitted'[i].data.message = NO_SIMULATION_MESSAGE
                           /\ emitted'[i].data.choices = FALLBACK_CHOICES
                           /\ Len(emitted'[i].data.choices) = 3
          /\ ~gameState'.gameOver
          /\ liveTimers' = liveTimers
          /\ liveTimers' # {}
      ]_vars

\* an action with both a message and a playerAction has just been forwarded
C12_Witness ==
    /\ lastEvent.name = "action"
    /\ lastEvent.arg = <<"check panel", "inspect">>
    /\ simulationSocket # NoSocket
    /\ gameState.turn = 1
    /\ Len(emitted) = 2
    /\ IsBroadcast(emitted[1], "chat message")
    /\ IsPrompt(emitted[2])
    /\ emitted[2].to = simulationSocket
    /\ emitted[2].data.playerAction = "inspect"
    /\ emitted[2].data.turn = 1

-----------------------------------------------------------------------------
\* C13: the turn counter starts a session at 0 and is a natural number; an
\* action accepted while gameOver is false raises it by exactly 1, with or
\* without a message, with or without a playerAction, with or without a
\* collaborator; an ignored action, a tick, an accusation, a narration
\* reply, an initial-state request, an announcement and a disconnect leave
\* it alone.  So within a session it counts the accepted actions.
C13_TurnCountsActions ==
    /\ gameState.turn = 0
    /\ [][/\ gameState'.turn \in Nat
          /\ lastEvent'.name = "restart_game" => gameState'.turn = 0
          /\ (lastEvent'.name = "action" /\ ~gameState.gameOver) =>
                gameState'.turn = gameState.turn + 1
          /\ (lastEvent'.name = "action" /\ gameState.gameOver) =>
                gameState'.turn = gameState.turn
          /\ lastEvent'.name \in {"tick", "accuse", "ai response", "request-initial-state",
                                  "simulation-ready", "disconnect"} =>
                gameState'.turn = gameState.turn
         ]_vars

\* an action without message, with a playerAction, without collaborator
C13_Witness ==
    /\ lastEvent.name = "action"
    /\ lastEvent.arg = <<EMPTY, "inspect">>
    /\ simulationSocket = NoSocket
    /\ gameState.conversation = <<>>
    /\ gameState.turn = 1
    /\ ~gameState.gameOver

-----------------------------------------------------------------------------
\* C14: a narration reply never ends a session or changes its outcome.
\* Received while gameOver is true it changes nothing and emits nothing.
\* Received while the session is active it appends exactly one
\* {speaker: AI, text: message} entry to the log, broadcasts a chat line and
\* then a game response (with the three default choices when none is
\* supplied), and leaves gameOver, gameResult, turn, timeRemaining and the
\* countdown as they were.  A session leaves the active state only by the
\* timeout, a correct accusation or an incorrect accusation.
C14_NarrationNeverResolves ==
    [][/\ lastEvent'.name = "ai response" =>
             LET message == lastEvent'.arg[1]
                 choices == lastEvent'.arg[2]
             IN  /\ UNCHANGED <<simulationSocket, gameTimer, liveTimers>>
                 /\ gameState'.gameOver = gameState.gameOver
                 /\ gameState'.gameResult = gameState.gameResult
                 /\ gameState'.turn = gameState.turn
                 /\ gameState'.timeRemaining = gameState.timeRemaining
                 /\ IF gameState.gameOver
                    THEN /\ gameState' = gameState
                         /\ emitted' = <<>>
                    ELSE /\ gameState'.conversation =
                               Append(gameState.conversation,
                                      [speaker |-> "AI", text |-> message])
                         /\ Len(emitted') = 2
                         /\ IsBroadcast(emitted'[1], "chat message")
                         /\ emitted'[1].data = <<message>>
                         /\ IsBroadcast(emitted'[2], "game response")
                         /\ emitted'[2].data.message = message
                         /\ emitted'[2].data.choices =
                               (IF choices.supplied THEN choices.list
                                ELSE DEFAULT_CHOICES)
                         /\ Len(DEFAULT_CHOICES) = 3
       /\ (~gameState.gameOver /\ gameState'.gameOver) =>
             \/ /\ lastEvent'.name = "tick"
                /\ gameState'.timeRemaining = 0
                /\ gameState'.gameResult = "defeat"
             \/ /\ lastEvent'.name = "accuse"
                /\ nameMapping(lastEvent'.arg) = gameState.traitor
                /\ gameState'.gameResult = "victory"
             \/ /\ lastEvent'.name = "accuse"
                /\ nameMapping(lastEvent'.arg) # gameState.traitor
                /\ gameState'.gameResult = "defeat"
      ]_vars

\* a reply without choices has just been narrated to an active session
C14_Witness ==
    /\ lastEvent.name = "ai response"
    /\ ~lastEvent.arg[2].supplied
    /\ ~gameState.gameOver
    /\ Len(gameState.conversation) = 1
    /\ gameState.conversation[1] = [speaker |-> "AI", text |-> lastEvent.arg[1]]
    /\ Len(emitted) = 2
    /\ emitted[2].data.choices = DEFAULT_CHOICES

-----------------------------------------------------------------------------
\* C15: an ai response event that arrives from a connection other than the
\* stored collaborator handle never appends to the conversation log and never
\* causes a chat line or a game response to be broadcast.
C15_OnlyCollaboratorNarrates ==
    [][(lastEvent'.name = "ai response" /\ lastEvent'.socket # simulationSocket) =>
          /\ gameState'.conversation = gameState.conversation
          /\ \A i \in DOMAIN emitted' :
                /\ ~IsBroadcast(emitted'[i], "chat message")
                /\ ~IsBroadcast(emitted'[i], "game response")
      ]_vars

-----------------------------------------------------------------------------
\* C16: one collaborator handle is stored at most; it starts empty, a
\* simulation-ready event makes the announcing connection the handle, a
\* disconnect empties it only when the connection that leaves is the stored
\* handle, and nothing else changes it.  So the handle is the connection that
\* announced itself last, or empty once that connection has gone.  Neither
\* event changes turn, log, gameOver, gameResult or timeRemaining.
C16_LastAnnouncerWins ==
    /\ simulationSocket = NoSocket
    /\ [][/\ simulationSocket' \in Sockets \cup {NoSocket}
          /\ lastEvent'.name = "simulation-ready" =>
                /\ simulationSocket' = lastEvent'.socket
                /\ gameState' = gameState
          /\ lastEvent'.name = "disconnect" =>
                /\ lastEvent'.socket = simulationSocket => simulationSocket' = NoSocket
                /\ lastEvent'.socket # simulationSocket => simulationSocket' = simulationSocket
                /\ gameState' = gameState
          /\ lastEvent'.name \notin {"simulation-ready", "disconnect"} =>
                simulationSocket' = simulationSocket
         ]_vars

\* a connection other than the stored handle has just disconnected
C16_Witness ==
    /\ lastEvent.name = "disconnect"
    /\ lastEvent.socket = 1
    /\ simulationSocket = 2

-----------------------------------------------------------------------------
IsGameOver(m) == m.event = "game_over"

\* C17: a request-initial-state event changes no state and broadcasts
\* nothing.  It sends to the requesting connection, and to nobody else, one
\* time update with the current timeRemaining, followed by a game_over if and
\* only if gameOver is true, whose result is the stored gameResult.
C17_InitialStateToRequester ==
    [][lastEvent'.name = "request-initial-state" =>
          /\ UNCHANGED <<gameState, simulationSocket, gameTimer, liveTimers>>
          /\ \A i \in DOMAIN emitted' :
                /\ emitted'[i].mode = "socket"
                /\ emitted'[i].to = lastEvent'.socket
          /\ Len(emitted') = (IF gameState.gameOver THEN 2 ELSE 1)
          /\ emitted'[1].event = "time update"
          /\ emitted'[1].data.timeRemaining = gameState.timeRemaining
          /\ Count(emitted', IsGameOver) = (IF gameState.gameOver THEN 1 ELSE 0)
          /\ gameState.gameOver =>
                /\ IsGameOver(emitted'[2])
                /\ emitted'[2].data.result = gameState.gameResult
      ]_vars

\* a connection that is not the collaborator asks after a victory
C17_Witness ==
    /\ lastEvent.name = "request-initial-state"
    /\ lastEvent.socket = 2
    /\ simulationSocket = 1
    /\ gameState.gameOver
    /\ gameState.gameResult = "victory"
    /\ Len(emitted) = 2
    /\ emitted[2].to = 2
    /\ emitted[2].data.result = "victory"

-----------------------------------------------------------------------------
\* late carries the result, the narrative message and the realTraitor of sent
SameTerminalEvent(sent, late) ==
    /\ late.result = sent.result
    /\ late.message = sent.message
    /\ "realTraitor" \in DOMAIN late
    /\ late.realTraitor = sent.realTraitor

\* C18: the game_over a client receives from request-initial-state once the
\* session has ended is the terminal event that was broadcast when the
\* session was resolved: same result, same narrative message, same
\* realTraitor, whether the resolution was the timeout, a correct accusation
\* or an incorrect one.  Observed on a request that directly follows the
\* resolving tick or accusation.
C18_LateJoinSameEvent ==
    [][(/\ lastEvent'.name = "request-initial-state"
        /\ lastEvent.name \in {"tick", "accuse"}
        /\ gameState.gameOver) =>
          \A i \in DOMAIN emitted, j \in DOMAIN emitted' :
             (IsGameOver(emitted[i]) /\ IsGameOver(emitted'[j])) =>
                SameTerminalEvent(emitted[i].data, emitted'[j].data)
      ]_vars

-----------------------------------------------------------------------------
\* C19: between two handler executions a countdown is armed exactly when
\* gameOver is false, and one at most.  A step that latches gameOver leaves
\* no countdown armed, a restart clears gameOver and leaves exactly the new
\* countdown armed, and no other step arms or cancels one.  So the tick
\* callback never runs while gameOver is true: its self-cancel branch is
\* never taken.
C19_ArmedIffActive ==
    /\ (liveTimers # {}) <=> ~gameState.gameOver
    /\ [][/\ (liveTimers' # {}) <=> ~gameState'.gameOver
          /\ Cardinality(liveTimers') <= 1
          /\ (~gameState.gameOver /\ gameState'.gameOver) => liveTimers' = {}
          /\ lastEvent'.name = "restart_game" =>
                /\ ~gameState'.gameOver
                /\ liveTimers' = {gameTimer'}
          /\ lastEvent'.name = "tick" => ~gameState.gameOver
          /\ (/\ lastEvent'.name # "restart_game"
              /\ gameState'.gameOver = gameState.gameOver) =>
                liveTimers' = liveTimers
         ]_vars

\* the timeout has just cancelled its own countdown
C19_Witness ==
    /\ lastEvent.name = "tick"
    /\ gameState.gameOver
    /\ gameState.timeRemaining = 0
    /\ gameTimer # NoTimer
    /\ liveTimers = {}

-----------------------------------------------------------------------------
JustRestarted == lastEvent.name = "restart_game"

\* C20: with the tick scheduled fairly, every active session ends unless it
\* is restarted, whatever else the sockets deliver.  An active session with
\* timeRemaining = t has run INITIAL_TIME - t ticks, so it is over after at
\* most t more; and whenever timeRemaining is 0 the session is over with
\* gameResult = defeat.
C20_EverySessionEnds ==
    /\ [](~gameState.gameOver => gameState.timeRemaining + ticks = INITIAL_TIME)
    /\ [](ticks <= INITIAL_TIME)
    /\ [](gameState.timeRemaining = 0 =>
             gameState.gameOver /\ gameState.gameResult = "defeat")
    /\ (~gameState.gameOver) ~> (gameState.gameOver \/ JustRestarted)

\* a session with an action in it has run all its ticks and timed out
C20_Witness ==
    /\ ticks = INITIAL_TIME
    /\ gameState.timeRemaining = 0
    /\ gameState.gameOver
    /\ gameState.gameResult = "defeat"
    /\ gameState.turn = 1
    /\ lastEvent.name = "tick"

=============================================================================
